---------------------------- MODULE Spec2Model ----------------------------
(***************************************************************************)
(* Model of the environmental affectation analysis of catastro16           *)
(* (src/services/advanced_analysis.py, class                               *)
(* AnalizadorAfeccionesAmbientales) and of the report it hands to the API  *)
(* (src/routers/analysis.py).                                              *)
(* Further parts: the KML parsing and the polygon mask of the same class,  *)
(* the bbox and mask of the batch script src/15.py, the framing step of    *)
(* src/services/urban_analysis.py, and create_query of                     *)
(* src/routers/catastro.py behind the guards of src/auth/dependencies.py,  *)
(* the other endpoints behind the same guard (src/routers/analysis.py,     *)
(* src/routers/urban.py), generar_pdf, and the KML file written by         *)
(* generar_kml of src/services/catastro_engine.py.                         *)
(*                                                                         *)
(* Representation.                                                         *)
(*  - A pixel is a tuple <<r, g, b>> of bytes.  An image is a record       *)
(*    [w, h, px] whose px is the row-major sequence of its w*h pixels      *)
(*    (numpy's order for pixels[mask] and reshape(-1, 3)); a mask is a     *)
(*    record [w, h, m] with m a sequence of booleans.  None is a record    *)
(*    of its own.                                                          *)
(*  - A Python/numpy float is a record [cls, v]: cls = "fin" with v the    *)
(*    value in hundredths (the results are rounded to 2 decimals), or      *)
(*    cls = "nan" / "inf" / "ninf" as numpy's true division produces them  *)
(*    for a zero divisor.  -0.0 is the finite value 0.                     *)
(*  - The result of analizar_pixeles is a record with a field kind:        *)
(*    "ok" (the full dict), "error" (the {'error': ...} dict), or "raise"  *)
(*    (the call raised; exc names the exception).                          *)
(*  - superficie_ha / superficie_afectada_ha (a cosine of the bbox         *)
(*    latitude) are not part of the modelled result.                       *)
(***************************************************************************)
EXTENDS Integers, Sequences, FiniteSets, TLC

(***************************************************************************)
(* Bounds of the exploration.                                              *)
(***************************************************************************)
\* number of pixels of the analysed grid (one row of NPix pixels)
NPix == 3

\* consecutive calls of analizar_pixeles with the same arguments
MaxLlamadas == 2

\* size of the mask crear_mascara_poligono / calcular_porcentaje_pixeles builds
Ancho == 4

Alto == 3

\* longitudes and latitudes of the KML vertices are the integers 0..MaxCoord
MaxCoord == 3

\* size of the raster capa_img of 15.py
AnchoCapa == 3

AltoCapa == 6

\* create_query requests of one user
NReq == 2

\* largest queries_limit and largest initial queries_used
MaxLimite == 2

\* affected pixels tried, and the largest of the small useful areas (also
\* the number of fractions of the grid tried)
MaxAfectados == 3

MaxArea == 24

\* vertices of the longest ring handed to generar_kml
MaxVertices == 4

(***************************************************************************)
(* Program constants.                                                      *)
(***************************************************************************)
\* pixels_dentro > 240
UmbralBlanco == 240

\* zoom_factor of get_bbox_from_polygons
ZoomFactor == 3

\* self.encuadre_factor as __init__ of AnalizadorUrbanistico sets it
EncuadrePorDefecto == 4

\* pixels of the raster analyze_kml requests (width=1000, height=1000)
PixelesRejilla == 1000000

\* umbrales of 15.py
Umbrales == {250, 200, 150}
\* round(porcentaje, 2): percentages are kept in hundredths
Centesimas == 100
\* color_counts.most_common(10)
TopN == 10
\* pixels_full_masked[~self.mascara] = [255, 255, 255]
Blanco == <<255, 255, 255>>

None == [none |-> TRUE]

\* self.capas.keys(), in insertion order
OrdenCapas == <<"montes_publicos", "red_natura", "vias_pecuarias", "patrimonio_geologico">>

NombresCapas == {OrdenCapas[i] : i \in 1..Len(OrdenCapas)}

\* self.capas: colores_posibles and tolerancia of each layer
capas ==
  [n \in NombresCapas |->
     CASE n = "montes_publicos" ->
            [colores_posibles |-> << <<34, 139, 34>>, <<0, 128, 0>>,
                                     <<46, 125, 50>>, <<76, 175, 80>> >>,
             tolerancia |-> 40]
       [] n = "red_natura" ->
            [colores_posibles |-> << <<0, 128, 0>>, <<34, 139, 34>>,
                                     <<0, 100, 0>>, <<60, 179, 113>> >>,
             tolerancia |-> 45]
       [] n = "vias_pecuarias" ->
            [colores_posibles |-> << <<165, 42, 42>>, <<139, 69, 19>>,
                                     <<160, 82, 45>>, <<205, 133, 63>> >>,
             tolerancia |-> 35]
       [] OTHER ->
            [colores_posibles |-> << <<128, 128, 128>>, <<169, 169, 169>> >>,
             tolerancia |-> 50]]

(***************************************************************************)
(* Input domains.                                                          *)
(***************************************************************************)
\* Pixel colours the images are drawn from: white; a green within tolerance
\* of two target colours of montes_publicos and of red_natura; a green at
\* exactly the tolerance (40) of montes_publicos' (76,175,80) and of no
\* other colour of that layer; a colour matched by vias_pecuarias and by
\* patrimonio_geologico; a colour with one channel above the blank
\* threshold that no layer matches.
Paleta ==
  { <<255, 255, 255>>, <<20, 130, 10>>, <<116, 175, 80>>,
    <<175, 130, 90>>, <<250, 100, 100>> }

Posiciones == 1..NPix

\* images of the grid's dimensions
Imagenes == {[w |-> NPix, h |-> 1, px |-> p] : p \in [Posiciones -> Paleta]}

\* masks of the grid's dimensions
Mascaras == {[w |-> NPix, h |-> 1, m |-> b] : b \in [Posiciones -> BOOLEAN]}

(***************************************************************************)
(* Arithmetic helpers.                                                     *)
(***************************************************************************)
Abs(x) == IF x < 0 THEN -x ELSE x

Fin(v) == [cls |-> "fin", v |-> v]

NaN == [cls |-> "nan", v |-> 0]

\* round-half-even of n/d for d > 0 and any integer n
RoundDiv(n, d) ==
  LET a == Abs(n)
      q == a \div d
      r == a % d
      up == IF 2 * r > d \/ (2 * r = d /\ q % 2 = 1) THEN q + 1 ELSE q
  IN IF n < 0 THEN -up ELSE up

\* round((num / den) * 100, 2) with num a numpy integer: the value in
\* hundredths, or nan / inf for a zero divisor (numpy warns, never raises)
Porcentaje(num, den) ==
  IF den = 0
    THEN IF num = 0 THEN NaN
         ELSE [cls |-> IF num > 0 THEN "inf" ELSE "ninf", v |-> 0]
    ELSE IF den > 0
           THEN Fin(RoundDiv(num * 100 * Centesimas, den))
           ELSE Fin(RoundDiv(-(num * 100 * Centesimas), -den))

(***************************************************************************)
(* detectar_color_multiple(pixels, colores_posibles, tolerancia)           *)
(* pixels is a sequence of pixels; the result is the boolean mask over     *)
(* the same positions.  pixels is a uint8 array and color a tuple, which   *)
(* numpy converts to an int64 array: the difference does not wrap.         *)
(***************************************************************************)
\* mutant: np.any over the channels instead of np.all
mask_color_any(pixels, color, tolerancia) ==
  [i \in 1..Len(pixels) |->
     \E ch \in 1..3 : Abs(pixels[i][ch] - color[ch]) <= tolerancia]

\* mutant: the comparison with the tolerance inverted
mask_color_invertida(pixels, color, tolerancia) ==
  [i \in 1..Len(pixels) |->
     \A ch \in 1..3 : Abs(pixels[i][ch] - color[ch]) >= tolerancia]

\* mask_color = np.all(np.abs(pixels - color) <= tolerancia, axis=2)
mask_color(pixels, color, tolerancia) ==
  [i \in 1..Len(pixels) |->
     \A ch \in 1..3 : Abs(pixels[i][ch] - color[ch]) <= tolerancia]

\* the loop over colores_posibles, from colour k on, accumulating with |
RECURSIVE DetectarDesde(_, _, _, _, _)
DetectarDesde(pixels, colores_posibles, tolerancia, k, mask_total) ==
  IF k > Len(colores_posibles)
    THEN mask_total
    ELSE LET mc == mask_color(pixels, colores_posibles[k], tolerancia)
         IN DetectarDesde(pixels, colores_posibles, tolerancia, k + 1,
                          [i \in 1..Len(pixels) |-> mask_total[i] \/ mc[i]])

detectar_color_multiple(pixels, colores_posibles, tolerancia) ==
  DetectarDesde(pixels, colores_posibles, tolerancia, 1,
                [i \in 1..Len(pixels) |-> FALSE])

(***************************************************************************)
(* Helpers of analizar_pixeles.                                            *)
(***************************************************************************)
\* np.sum of a boolean sequence
RECURSIVE SumaBool(_)
SumaBool(b) ==
  IF Len(b) = 0 THEN 0 ELSE (IF Head(b) THEN 1 ELSE 0) + SumaBool(Tail(b))

\* mutant: the mask is not applied
Seleccionar_sinMascara(px, m) == px

\* pixels[self.mascara]: the pixels at the true positions, in row-major order
RECURSIVE Seleccionar(_, _)
Seleccionar(px, m) ==
  IF Len(px) = 0 THEN <<>>
  ELSE (IF Head(m) THEN <<Head(px)>> ELSE <<>>) \o Seleccionar(Tail(px), Tail(m))

\* mutant: the blank threshold lies within the tolerance of a target colour
blancos_umbralBajo(pixels_dentro) ==
  [ch \in 1..3 |->
     \A i \in 1..Len(pixels_dentro) : pixels_dentro[i][ch] > UmbralBlanco - 1]

\* blancos = np.all(pixels_dentro > 240, axis=0): the reduction runs over
\* the pixel axis of the (N, 3) array and leaves one boolean per CHANNEL
blancos(pixels_dentro) ==
  [ch \in 1..3 |-> \A i \in 1..Len(pixels_dentro) : pixels_dentro[i][ch] > UmbralBlanco]

\* Counter(pixels_tuple): the distinct colours in first-occurrence order ...
RECURSIVE Distintos(_, _)
Distintos(px, vistos) ==
  IF Len(px) = 0 THEN vistos
  ELSE Distintos(Tail(px),
                 IF \E k \in 1..Len(vistos) : vistos[k] = Head(px)
                   THEN vistos ELSE Append(vistos, Head(px)))

\* ... and the count of each
Cuenta(px, c) == Cardinality({i \in 1..Len(px) : px[i] = c})

\* stable insertion of item e into a sequence sorted by count, descending
RECURSIVE InsertarOrdenado(_, _)
InsertarOrdenado(s, e) ==
  IF Len(s) = 0 THEN <<e>>
  ELSE IF Head(s)[2] >= e[2]
         THEN <<Head(s)>> \o InsertarOrdenado(Tail(s), e)
         ELSE <<e>> \o s

RECURSIVE OrdenarPorCuenta(_, _)
OrdenarPorCuenta(items, acc) ==
  IF Len(items) = 0 THEN acc
  ELSE OrdenarPorCuenta(Tail(items), InsertarOrdenado(acc, Head(items)))

\* color_counts.most_common(10): (colour, count) by count descending, ties
\* in first-occurrence order, at most TopN of them
top_colores(pixels_dentro) ==
  LET d == Distintos(pixels_dentro, <<>>)
      items == [k \in 1..Len(d) |-> <<d[k], Cuenta(pixels_dentro, d[k])>>]
      orden == OrdenarPorCuenta(items, <<>>)
  IN IF Len(orden) > TopN THEN SubSeq(orden, 1, TopN) ELSE orden

(***************************************************************************)
(* analizar_pixeles(imagen, nombre_capa) with self.mascara = mascara       *)
(***************************************************************************)
ErrorImagen == [kind |-> "error", error |-> "Imagen no disponible"]

\* pixels[self.mascara] raises when the mask's shape is not the array's
FormaDistinta(imagen, mascara) ==
  mascara # None /\ (mascara.w # imagen.w \/ mascara.h # imagen.h)

\* pixels_full_masked: the copy with the pixels outside the mask whitened
pixels_full_masked(pixels, mascara) ==
  [i \in 1..Len(pixels) |-> IF mascara.m[i] THEN pixels[i] ELSE Blanco]

\* the value detectar_color_multiple returns inside analizar_pixeles
DeteccionEnAnalisis(imagen, nombre_capa, mascara) ==
  IF imagen = None \/ FormaDistinta(imagen, mascara) THEN None
  ELSE LET config == capas[nombre_capa]
       IN detectar_color_multiple(
            IF mascara # None THEN pixels_full_masked(imagen.px, mascara)
                              ELSE imagen.px,
            config.colores_posibles, config.tolerancia)

\* analizar_pixeles, given the value det its call of detectar_color_multiple
\* returns
AnalisisCon(imagen, nombre_capa, mascara, det) ==
  IF imagen = None THEN ErrorImagen
  ELSE IF FormaDistinta(imagen, mascara)
    THEN [kind |-> "raise", exc |-> "IndexError"]
  ELSE
    LET config == capas[nombre_capa]
        pixels == imagen.px
        pixels_dentro ==
          IF mascara # None THEN Seleccionar(pixels, mascara.m) ELSE pixels
        total_pixels_poligono == Len(pixels_dentro)
        pixels_blancos == SumaBool(blancos(pixels_dentro))
        area_util == total_pixels_poligono - pixels_blancos
        pixels_afectados_mask ==
          IF mascara # None
            THEN [i \in 1..Len(pixels) |-> det[i] /\ mascara.m[i]]
            ELSE det
        num_afectados == SumaBool(pixels_afectados_mask)
    IN [kind |-> "ok",
        total_pixels_poligono |-> total_pixels_poligono,
        pixels_blancos |-> pixels_blancos,
        area_util |-> area_util,
        pixels_afectados |-> num_afectados,
        porcentaje_afectacion |->
          IF area_util = 0 THEN Fin(0) ELSE Porcentaje(num_afectados, area_util),
        porcentaje_sobre_total |->
          IF area_util = 0 THEN Fin(0)
          ELSE Porcentaje(num_afectados, total_pixels_poligono),
        colores_detectados |-> Len(Distintos(pixels_dentro, <<>>)),
        top_colores |-> top_colores(pixels_dentro),
        colores_buscados |-> config.colores_posibles,
        tolerancia_usada |-> config.tolerancia]

analizar_pixeles(imagen, nombre_capa, mascara) ==
  AnalisisCon(imagen, nombre_capa, mascara,
              DeteccionEnAnalisis(imagen, nombre_capa, mascara))

(***************************************************************************)
(* clasificar_afectacion(porcentaje): (nivel, emoji).  The argument is a   *)
(* float; every comparison with nan is false, so nan falls to the else.    *)
(* "SIN AFECTACION" / "MUY BAJA" / ... stand for the source's strings and  *)
(* the emoji are named by their colour.                                    *)
(***************************************************************************)
\* porcentaje == x and porcentaje < x for a float record and a number x in
\* hundredths
FloatIgual(p, x) == p.cls = "fin" /\ p.v = x

FloatMenor(p, x) == (p.cls = "fin" /\ p.v < x) \/ p.cls = "ninf"

\* mutant: the 5 % boundary compared with <=
clasificar_afectacion_le(p) ==
  IF FloatIgual(p, 0) THEN <<"SIN AFECTACION", "check">>
  ELSE IF FloatMenor(p, 5 * Centesimas + 1) THEN <<"MUY BAJA", "verde">>
  ELSE IF FloatMenor(p, 15 * Centesimas) THEN <<"BAJA", "amarillo">>
  ELSE IF FloatMenor(p, 35 * Centesimas) THEN <<"MODERADA", "naranja">>
  ELSE IF FloatMenor(p, 60 * Centesimas) THEN <<"ALTA", "rojo">>
  ELSE <<"MUY ALTA", "rojo">>

clasificar_afectacion(p) ==
  IF FloatIgual(p, 0) THEN <<"SIN AFECTACION", "check">>
  ELSE IF FloatMenor(p, 5 * Centesimas) THEN <<"MUY BAJA", "verde">>
  ELSE IF FloatMenor(p, 15 * Centesimas) THEN <<"BAJA", "amarillo">>
  ELSE IF FloatMenor(p, 35 * Centesimas) THEN <<"MODERADA", "naranja">>
  ELSE IF FloatMenor(p, 60 * Centesimas) THEN <<"ALTA", "rojo">>
  ELSE <<"MUY ALTA", "rojo">>

(***************************************************************************)
(* parsear_kml and crear_mascara_poligono.                                 *)
(* The KML file is the sequence of its <coordinates> elements in document  *)
(* order, each the sequence of its "lon,lat[,alt]" tuples as pairs         *)
(* <<lon, lat>>.  Longitudes and latitudes are integers and the quotients  *)
(* are exact: the rounding of the floating-point division is not           *)
(* modelled.                                                               *)
(***************************************************************************)
MinDe(S) == CHOOSE m \in S : \A x \in S : m <= x

MaxDe(S) == CHOOSE m \in S : \A x \in S : m >= x

Lons(cs) == {cs[k][1] : k \in 1..Len(cs)}

Lats(cs) == {cs[k][2] : k \in 1..Len(cs)}

\* root.find('.//kml:coordinates'): the first element only; ValueError when
\* there is none or when it holds no tuple; the bbox is the min/max of the
\* parsed tuples, whatever its extent
parsear_kml(doc) ==
  IF Len(doc) = 0
    THEN [kind |-> "raise", exc |-> "ValueError", coordenadas |-> None]
    ELSE LET cs == doc[1]
         IN IF cs = <<>>
              THEN [kind |-> "raise", exc |-> "ValueError", coordenadas |-> <<>>]
              ELSE [kind |-> "ok",
                    coordenadas |-> cs,
                    bbox |-> [minx |-> MinDe(Lons(cs)), miny |-> MinDe(Lats(cs)),
                              maxx |-> MaxDe(Lons(cs)), maxy |-> MaxDe(Lats(cs))]]

\* int(n / d) for d > 0: truncation toward zero
Trunc(n, d) == IF n >= 0 THEN n \div d ELSE -((-n) \div d)

\* mutant: the x of a vertex is measured from miny
coords_pixel_miny(cs, bb, width, height) ==
  [k \in 1..Len(cs) |->
     <<Trunc((cs[k][1] - bb.miny) * width, bb.maxx - bb.minx),
       Trunc((bb.maxy - cs[k][2]) * height, bb.maxy - bb.miny)>>]

\* coords_pixel of crear_mascara_poligono
coords_pixel(cs, bb, width, height) ==
  [k \in 1..Len(cs) |->
     <<Trunc((cs[k][1] - bb.minx) * width, bb.maxx - bb.minx),
       Trunc((bb.maxy - cs[k][2]) * height, bb.maxy - bb.miny)>>]

\* ImageDraw.polygon(cp, fill=255) on pixel (x, y), for the two shapes of
\* the explored KML files.  A polygon whose vertices are the corners of an
\* axis-aligned box fills the box, its last column and row included.
EnCaja(x, y, cp) ==
  LET xs == {cp[k][1] : k \in 1..Len(cp)}
      ys == {cp[k][2] : k \in 1..Len(cp)}
  IN /\ MinDe(xs) <= x /\ x <= MaxDe(xs)
     /\ MinDe(ys) <= y /\ y <= MaxDe(ys)

\* A polygon of two vertices is the line between them: on each row the
\* pixel nearest to the line.
EnSegmento(x, y, a, b) ==
  LET dx == b[1] - a[1]
      dy == b[2] - a[2]
      MinXY(u, v) == IF u <= v THEN u ELSE v
      MaxXY(u, v) == IF u <= v THEN v ELSE u
  IN /\ MinXY(a[2], b[2]) <= y /\ y <= MaxXY(a[2], b[2])
     /\ IF dy = 0
          THEN MinXY(a[1], b[1]) <= x /\ x <= MaxXY(a[1], b[1])
          ELSE 2 * Abs((x - a[1]) * dy - (y - a[2]) * dx) <= Abs(dy)

draw_polygon(cp, width, height) ==
  [i \in 1..(width * height) |->
     LET x == (i - 1) % width
         y == (i - 1) \div width
     IN IF Len(cp) = 2 THEN EnSegmento(x, y, cp[1], cp[2]) ELSE EnCaja(x, y, cp)]

\* crear_mascara_poligono(width, height): the division by the extent of
\* the bbox raises ZeroDivisionError when the extent is zero
crear_mascara_poligono(cs, bb, width, height) ==
  IF bb.maxx - bb.minx = 0 \/ bb.maxy - bb.miny = 0
    THEN [kind |-> "raise", exc |-> "ZeroDivisionError"]
    ELSE [kind |-> "ok",
          mascara |-> [w |-> width, h |-> height,
                       m |-> draw_polygon(coords_pixel(cs, bb, width, height),
                                          width, height)]]

(***************************************************************************)
(* 15.py: get_bbox_from_polygons and calcular_porcentaje_pixeles, and the  *)
(* framing step of AnalizadorUrbanistico.ejecutar_analisis.  Here a        *)
(* coordinate is counted in halves of a degree (or of a metre), so that    *)
(* the halvings of the code are exact on the explored inputs.              *)
(***************************************************************************)
\* all_coords of get_bbox_from_polygons
all_coords(polys) ==
  {polys[i][j][k] : <<i, j, k>> \in
     {t \in (1..Len(polys)) \X (1..2) \X (1..5) :
        t[2] <= Len(polys[t[1]]) /\ t[3] <= Len(polys[t[1]][t[2]])}}

\* mutant: the zoom is applied to the lower edges only
get_bbox_from_polygons_inferior(polys) ==
  LET lons == {c[1] : c \in all_coords(polys)}
      lats == {c[2] : c \in all_coords(polys)}
      lat_min == MinDe(lats)
      lat_max == MaxDe(lats)
      lon_min == MinDe(lons)
      lon_max == MaxDe(lons)
      lat_center == (lat_min + lat_max) \div 2
      lon_center == (lon_min + lon_max) \div 2
      lat_half == (lat_max - lat_min) \div 2
      lon_half == (lon_max - lon_min) \div 2
  IN <<lat_center - lat_half * ZoomFactor, lon_center - lon_half * ZoomFactor,
       lat_center + lat_half, lon_center + lon_half>>

\* get_bbox_from_polygons(polygons): (lat_min, lon_min, lat_max, lon_max)
\* zoomed; min() of an empty list raises ValueError before this is reached
get_bbox_from_polygons(polys) ==
  LET lons == {c[1] : c \in all_coords(polys)}
      lats == {c[2] : c \in all_coords(polys)}
      lat_min == MinDe(lats)
      lat_max == MaxDe(lats)
      lon_min == MinDe(lons)
      lon_max == MaxDe(lons)
      lat_center == (lat_min + lat_max) \div 2
      lon_center == (lon_min + lon_max) \div 2
      lat_half == (lat_max - lat_min) \div 2
      lon_half == (lon_max - lon_min) \div 2
  IN <<lat_center - lat_half * ZoomFactor, lon_center - lon_half * ZoomFactor,
       lat_center + lat_half * ZoomFactor, lon_center + lon_half * ZoomFactor>>

\* np.linspace(a, b, n)[i] is LinNum(a, b, n, i) / LinDen(n)
LinDen(n) == IF n = 1 THEN 1 ELSE n - 1

LinNum(a, b, n, i) == a * LinDen(n) + i * (b - a)

\* parcela_geom.contains(Point(xn/xd, yn/yd)) for a MultiPolygon of
\* rectangles without holes: the point is interior to one of them
contains(polys, xn, xd, yn, yd) ==
  \E i \in 1..Len(polys) :
    LET ring == polys[i][1]
    IN /\ MinDe(Lons(ring)) * xd < xn /\ xn < MaxDe(Lons(ring)) * xd
       /\ MinDe(Lats(ring)) * yd < yn /\ yn < MaxDe(Lats(ring)) * yd

\* the mask of calcular_porcentaje_pixeles: mask[i, j] for ys[i], xs[j]
mask_parcela(polys, bb, width, height) ==
  [k \in 1..(width * height) |->
     LET j == (k - 1) % width
         i == (k - 1) \div width
     IN contains(polys, LinNum(bb[2], bb[4], width, j), LinDen(width),
                        LinNum(bb[1], bb[3], height, i), LinDen(height))]

\* Image.convert("L") on an RGB pixel
convert_L(p) == (p[1] * 19595 + p[2] * 38470 + p[3] * 7471 + 32768) \div 65536

\* calcular_porcentaje_pixeles(parcela_polygons, capa_img, bbox, umbral)
calcular_porcentaje_pixeles(polys, capa_img, bb, umbral) ==
  LET mask == mask_parcela(polys, bb, capa_img.w, capa_img.h)
      afectados == Cardinality({k \in 1..Len(mask) :
                                  mask[k] /\ convert_L(capa_img.px[k]) < umbral})
      total == SumaBool(mask)
  IN [mask |-> [w |-> capa_img.w, h |-> capa_img.h, m |-> mask],
      porcentaje |-> IF total > 0 THEN Porcentaje(afectados, total) ELSE Fin(0)]

\* mutant: the margin added on each side is factor * ancho / 2
encuadre_de_mas(tb, factor) ==
  LET ancho == tb[3] - tb[1]
      alto == tb[4] - tb[2]
  IN <<tb[1] - (factor * ancho) \div 2, tb[3] + (factor * ancho) \div 2,
       tb[2] - (factor * alto) \div 2, tb[4] + (factor * alto) \div 2>>

\* extent of ejecutar_analisis, from parcela.total_bounds
\* (minx, miny, maxx, maxy): (minx, maxx, miny, maxy)
encuadre(tb, factor) ==
  LET ancho == tb[3] - tb[1]
      alto == tb[4] - tb[2]
  IN <<tb[1] - ((factor - 1) * ancho) \div 2, tb[3] + ((factor - 1) * ancho) \div 2,
       tb[2] - ((factor - 1) * alto) \div 2, tb[4] + ((factor - 1) * alto) \div 2>>

(***************************************************************************)
(* State.                                                                  *)
(***************************************************************************)
VARIABLES
  imagen,      \* the image handed to analizar_pixeles / detectar_color_multiple
  mascara,     \* self.mascara
  capa,        \* nombre_capa
  analisis,    \* the value analizar_pixeles returned (None before the call)
  mask_total,  \* the value detectar_color_multiple returned
  tolerancia,  \* the tolerancia argument of detectar_color_multiple
  porcentaje,  \* the argument of clasificar_afectacion
  nivel,       \* the value clasificar_afectacion returned
  respuestas,  \* what the WMS request of each layer yields: an image, or
               \* None when descargar_capa_wms catches an exception
  resultados,  \* self.resultados
  pc,          \* position of the run of analizar_todas_capas and its caller
  indice,      \* position of the loop over self.capas.keys()
  informe,     \* datos_export written by exportar_json (None before)
  llamadas,    \* consecutive calls of analizar_pixeles made with the present
               \* image, layer and mask
  ranking,     \* the list afectaciones of generar_informe (None before)
  kml,         \* the <coordinates> elements of the KML file, in document order
  coordenadas, \* self.coordenadas
  bbox,        \* self.bbox, or the bbox of 15.py
  coords,      \* the centre of the parcel handed to generar_kml, (lon, lat)
  gml_coords,  \* the ring of the parcel handed to generar_kml, (lat, lon)
  polygons,    \* the list parse_kml_polygons of 15.py returned
  total_bounds,     \* parcela.total_bounds of ejecutar_analisis
  encuadre_factor,  \* self.encuadre_factor
  extent,           \* the extent ejecutar_analisis computes
  subscription,  \* the user's row of the table subscriptions (None: no row)
  queries,       \* the rows of the table queries
  tareas,        \* the tasks handed to background_tasks
  peticion       \* position of each create_query request, and the
                 \* queries_used its session loaded

varsPixeles == <<imagen, capa, analisis, mask_total, tolerancia, llamadas>>

varsClasificar == <<porcentaje, nivel>>

varsCapas == <<respuestas, resultados, pc, indice, informe, ranking>>

varsKml == <<kml, coordenadas, bbox, coords, gml_coords>>

varsEncuadre == <<polygons, total_bounds, encuadre_factor, extent>>

varsCuota == <<subscription, queries, tareas, peticion>>

varsResto == <<varsKml, varsEncuadre, varsCuota>>

vars == <<imagen, mascara, capa, analisis, mask_total, tolerancia,
          porcentaje, nivel, respuestas, resultados, pc, indice, informe,
          llamadas, ranking, kml, coordenadas, bbox, coords, gml_coords, polygons,
          total_bounds, encuadre_factor, extent,
          subscription, queries, tareas, peticion>>

\* the variables of the other operations, while they are not in use
SinClasificar == porcentaje = None /\ nivel = None

SinCapas ==
  /\ respuestas = None
  /\ resultados = <<>>
  /\ pc = "sin_uso"
  /\ indice = 0
  /\ informe = None
  /\ ranking = None

SinPixeles ==
  /\ imagen = None
  /\ capa = "montes_publicos"
  /\ analisis = None
  /\ mask_total = None
  /\ tolerancia = 0
  /\ llamadas = 0

SinParcela == coords = <<>> /\ gml_coords = <<>>

SinKml == kml = None /\ coordenadas = None /\ bbox = None /\ SinParcela

SinEncuadre ==
  /\ polygons = None
  /\ total_bounds = <<>>
  /\ encuadre_factor = 0
  /\ extent = <<>>

SinCuota ==
  /\ subscription = None
  /\ queries = {}
  /\ tareas = {}
  /\ peticion = <<>>

SinResto == SinKml /\ SinEncuadre /\ SinCuota

(***************************************************************************)
(* Spec: calls of analizar_pixeles on every image, mask and layer.         *)
(***************************************************************************)
Init ==
  /\ imagen \in Imagenes \cup {None}
  /\ mascara \in Mascaras \cup {None}
  /\ capa \in NombresCapas
  /\ analisis = None
  /\ mask_total = None
  /\ tolerancia = 0
  /\ llamadas = 0
  /\ SinClasificar
  /\ SinCapas
  /\ SinResto

\* mutant: the call narrows self.mascara to the pixels it found affected
AnalizarPixeles_estrecha ==
  /\ analisis = None
  /\ mask_total' = DeteccionEnAnalisis(imagen, capa, mascara)
  /\ analisis' = AnalisisCon(imagen, capa, mascara, mask_total')
  /\ llamadas' = 1
  /\ mascara' = IF mascara = None \/ imagen = None
                  THEN mascara
                  ELSE [mascara EXCEPT !.m = [i \in Posiciones |->
                                                 mascara.m[i] /\ mask_total'[i]]]
  /\ UNCHANGED <<imagen, capa, tolerancia, varsClasificar, varsCapas, varsResto>>

\* analizar_pixeles(imagen, capa): the method assigns no attribute of self
\* and writes into no array but its own copies
AnalizarPixeles ==
  /\ analisis = None
  /\ mask_total' = DeteccionEnAnalisis(imagen, capa, mascara)
  /\ analisis' = AnalisisCon(imagen, capa, mascara, mask_total')
  /\ llamadas' = 1
  /\ UNCHANGED <<imagen, mascara, capa, tolerancia, varsClasificar, varsCapas, varsResto>>

\* a further call of analizar_pixeles for the same layer, on an image that
\* differs from the last one in pixel i
AnalizarOtraImagen(i, c) ==
  /\ analisis # None
  /\ imagen # None
  /\ imagen' = [imagen EXCEPT !.px[i] = c]
  /\ mask_total' = DeteccionEnAnalisis(imagen', capa, mascara)
  /\ analisis' = AnalisisCon(imagen', capa, mascara, mask_total')
  /\ llamadas' = 1
  /\ UNCHANGED <<mascara, capa, tolerancia, varsClasificar, varsCapas, varsResto>>

Next ==
  \/ AnalizarPixeles
  \/ \E i \in Posiciones, c \in Paleta : AnalizarOtraImagen(i, c)

Spec == Init /\ [][Next]_vars

(***************************************************************************)
(* SpecRepetir: analizar_pixeles called again and again with the image,    *)
(* layer and mask of the call before.                                      *)
(***************************************************************************)
\* analizar_pixeles(imagen, capa) once more, on what the call before left
AnalizarDeNuevo ==
  /\ analisis # None
  /\ llamadas < MaxLlamadas
  /\ mask_total' = DeteccionEnAnalisis(imagen, capa, mascara)
  /\ analisis' = AnalisisCon(imagen, capa, mascara, mask_total')
  /\ llamadas' = llamadas + 1
  /\ UNCHANGED <<imagen, mascara, capa, tolerancia, varsClasificar, varsCapas, varsResto>>

NextRepetir ==
  \/ AnalizarPixeles
  \/ AnalizarDeNuevo

SpecRepetir == Init /\ [][NextRepetir]_vars

(***************************************************************************)
(* SpecDetectar: calls of detectar_color_multiple on every image, with the *)
(* colour list of every layer and a range of tolerances.                   *)
(***************************************************************************)
\* tolerances tried: none, small, the configured ones, and the whole range
Tolerancias == {0, 10, 24, 35, 40, 45, 50, 255}

InitDetectar ==
  /\ imagen \in Imagenes
  /\ capa \in NombresCapas
  /\ tolerancia \in Tolerancias
  /\ mascara = None
  /\ analisis = None
  /\ mask_total = None
  /\ llamadas = 0
  /\ SinClasificar
  /\ SinCapas
  /\ SinResto

\* detectar_color_multiple(imagen.px, colores_posibles of capa, tolerancia)
DetectarColorMultiple ==
  /\ mask_total = None
  /\ mask_total' = detectar_color_multiple(imagen.px,
                                           capas[capa].colores_posibles, tolerancia)
  /\ UNCHANGED <<imagen, mascara, capa, analisis, tolerancia, llamadas,
                  varsClasificar, varsCapas, varsResto>>

\* a further call on the same pixels and colours with tolerance t
DetectarConTolerancia(t) ==
  /\ mask_total # None
  /\ tolerancia' = t
  /\ mask_total' = detectar_color_multiple(imagen.px,
                                           capas[capa].colores_posibles, t)
  /\ UNCHANGED <<imagen, mascara, capa, analisis, llamadas,
                  varsClasificar, varsCapas, varsResto>>

NextDetectar ==
  \/ DetectarColorMultiple
  \/ \E t \in Tolerancias : DetectarConTolerancia(t)

SpecDetectar == InitDetectar /\ [][NextDetectar]_vars

(***************************************************************************)
(* SpecClasificar: clasificar_afectacion on every percentage of [0, 100]   *)
(* in hundredths, on some negative ones and on nan.                        *)
(***************************************************************************)
PorcentajesProbados ==
  {Fin(v) : v \in (-Centesimas)..(100 * Centesimas)} \cup {NaN}

InitClasificar ==
  /\ porcentaje \in PorcentajesProbados
  /\ nivel = None
  /\ mascara = None
  /\ SinPixeles
  /\ SinCapas
  /\ SinResto

\* clasificar_afectacion(porcentaje)
Clasificar ==
  /\ nivel = None
  /\ nivel' = clasificar_afectacion(porcentaje)
  /\ UNCHANGED <<mascara, porcentaje, varsPixeles, varsCapas, varsResto>>

NextClasificar == Clasificar

SpecClasificar == InitClasificar /\ [][NextClasificar]_vars

(***************************************************************************)
(* SpecCapas: a run of analizar_todas_capas followed by exportar_json, for *)
(* every outcome of the four WMS requests.  The polygon is an input of the *)
(* run: crear_mascara_poligono may leave any mask of the requested size.   *)
(***************************************************************************)
\* rasters a WMS request may yield: three of the requested size ...
ImagenesWMS ==
  {[w |-> NPix, h |-> 1, px |-> [i \in Posiciones |-> c]] :
     c \in {<<20, 130, 10>>, <<175, 130, 90>>, Blanco}}

\* ... and one whose size is not the requested one
ImagenOtraForma ==
  [w |-> NPix + 1, h |-> 1, px |-> [i \in 1..(NPix + 1) |-> <<20, 130, 10>>]]

Respuestas == ImagenesWMS \cup {ImagenOtraForma, None}

\* descargar_capa_wms(nombre_capa): the image, or None when the request,
\* the status check or Image.open raised
descargar_capa_wms(nombre_capa) == respuestas[nombre_capa]

\* self.resultados[nombre_capa] = {'imagen': imagen, 'analisis': analisis}
Guardar(res, nombre_capa, img, a) ==
  [n \in (DOMAIN res) \cup {nombre_capa} |->
     IF n = nombre_capa THEN [imagen |-> img, analisis |-> a] ELSE res[n]]

\* analisis.copy() with top_colores popped
SinTopColores(a) == [k \in (DOMAIN a) \ {"top_colores"} |-> a[k]]

\* datos_export['afecciones'] of exportar_json
afecciones(res) ==
  [n \in {x \in DOMAIN res : res[x].analisis.kind # "error"} |->
     SinTopColores(res[n].analisis)]

\* nombre.replace('_', ' ').title()
titulo(nombre) ==
  CASE nombre = "montes_publicos" -> "Montes Publicos"
    [] nombre = "red_natura" -> "Red Natura"
    [] nombre = "vias_pecuarias" -> "Vias Pecuarias"
    [] nombre = "patrimonio_geologico" -> "Patrimonio Geologico"

\* a < b on floats: false when either is nan
FloatMenorQue(a, b) ==
  \/ a.cls = "fin" /\ b.cls = "fin" /\ a.v < b.v
  \/ a.cls = "ninf" /\ b.cls \in {"fin", "inf"}
  \/ a.cls = "fin" /\ b.cls = "inf"

\* mutant: the list is sorted without reverse=True
InsertarPorPorcentaje_ascendente(s, e) ==
  LET antes == {k \in 1..Len(s) : FloatMenorQue(e[2], s[k][2])}
      pos == IF antes = {} THEN Len(s) + 1 ELSE MinDe(antes)
  IN SubSeq(s, 1, pos - 1) \o <<e>> \o SubSeq(s, pos, Len(s))

\* sort(key=lambda x: x[1], reverse=True) is stable: an entry goes before
\* the first entry of a smaller percentage
InsertarPorPorcentaje(s, e) ==
  LET antes == {k \in 1..Len(s) : FloatMenorQue(s[k][2], e[2])}
      pos == IF antes = {} THEN Len(s) + 1 ELSE MinDe(antes)
  IN SubSeq(s, 1, pos - 1) \o <<e>> \o SubSeq(s, pos, Len(s))

\* afectaciones of generar_informe: an entry for every layer of
\* self.resultados without 'error', in the order of the dict, then sorted
RECURSIVE afectaciones_desde(_, _, _)
afectaciones_desde(res, k, acc) ==
  IF k > Len(OrdenCapas) THEN acc
  ELSE LET nombre == OrdenCapas[k]
       IN IF nombre \in DOMAIN res /\ res[nombre].analisis.kind # "error"
            THEN afectaciones_desde(res, k + 1,
                   InsertarPorPorcentaje(acc,
                     <<titulo(nombre), res[nombre].analisis.porcentaje_afectacion>>))
            ELSE afectaciones_desde(res, k + 1, acc)

\* the first loop of generar_informe divides the count of each top colour
\* by area_util, two Python ints: ZeroDivisionError when area_util is 0
InformeDivideEntreCero(res) ==
  \E nombre \in DOMAIN res :
    /\ res[nombre].analisis.kind # "error"
    /\ res[nombre].analisis.area_util = 0
    /\ res[nombre].analisis.top_colores # <<>>

InitCapas ==
  /\ respuestas \in [NombresCapas -> Respuestas]
  /\ resultados = <<>>
  /\ pc = "inicio"
  /\ indice = 0
  /\ informe = None
  /\ ranking = None
  /\ mascara = None
  /\ SinPixeles
  /\ SinClasificar
  /\ SinResto

\* analizar_todas_capas up to the loop: crear_mascara_poligono(width, height)
CrearMascara ==
  /\ pc = "inicio"
  /\ mascara' \in Mascaras
  /\ pc' = "bucle"
  /\ indice' = 1
  /\ UNCHANGED <<varsPixeles, varsClasificar, varsResto,
                  respuestas, resultados, informe, ranking>>

\* mutant: a layer whose download failed aborts the run
AnalizarCapa_aborta ==
  /\ pc = "bucle"
  /\ LET nombre_capa == OrdenCapas[indice]
         img == descargar_capa_wms(nombre_capa)
         det == DeteccionEnAnalisis(img, nombre_capa, mascara)
         a == AnalisisCon(img, nombre_capa, mascara, det)
     IN /\ imagen' = img
        /\ capa' = nombre_capa
        /\ mask_total' = det
        /\ analisis' = a
        /\ IF a.kind = "raise" \/ img = None
             THEN /\ pc' = "excepcion"
                  /\ UNCHANGED <<resultados, indice>>
             ELSE /\ resultados' = Guardar(resultados, nombre_capa, img, a)
                  /\ indice' = indice + 1
                  /\ pc' = IF indice = Len(OrdenCapas) THEN "fin" ELSE "bucle"
  /\ UNCHANGED <<mascara, tolerancia, llamadas, varsClasificar, varsResto,
                  respuestas, informe, ranking>>

\* one iteration of the loop of analizar_todas_capas: download, analyse and
\* store; an exception of analizar_pixeles leaves the method
AnalizarCapa ==
  /\ pc = "bucle"
  /\ LET nombre_capa == OrdenCapas[indice]
         img == descargar_capa_wms(nombre_capa)
         det == DeteccionEnAnalisis(img, nombre_capa, mascara)
         a == AnalisisCon(img, nombre_capa, mascara, det)
     IN /\ imagen' = img
        /\ capa' = nombre_capa
        /\ mask_total' = det
        /\ analisis' = a
        /\ IF a.kind = "raise"
             THEN /\ pc' = "excepcion"
                  /\ UNCHANGED <<resultados, indice>>
             ELSE /\ resultados' = Guardar(resultados, nombre_capa, img, a)
                  /\ indice' = indice + 1
                  /\ pc' = IF indice = Len(OrdenCapas) THEN "fin" ELSE "bucle"
  /\ UNCHANGED <<mascara, tolerancia, llamadas, varsClasificar, varsResto,
                  respuestas, informe, ranking>>

\* exportar_json(archivo), called once analizar_todas_capas has returned
ExportarJson ==
  /\ pc = "fin"
  /\ informe' = [afecciones |-> afecciones(resultados)]
  /\ pc' = "exportado"
  /\ UNCHANGED <<mascara, varsPixeles, varsClasificar, varsResto,
                  respuestas, resultados, indice, ranking>>

\* generar_informe(), called once analizar_todas_capas has returned
GenerarInforme ==
  /\ pc = "fin"
  /\ ranking = None
  /\ IF InformeDivideEntreCero(resultados)
       THEN pc' = "excepcion_informe" /\ UNCHANGED ranking
       ELSE /\ ranking' = [afectaciones |-> afectaciones_desde(resultados, 1, <<>>)]
            /\ UNCHANGED pc
  /\ UNCHANGED <<mascara, varsPixeles, varsClasificar, varsResto,
                  respuestas, resultados, indice, informe>>

NextCapas ==
  \/ CrearMascara
  \/ AnalizarCapa
  \/ GenerarInforme
  \/ ExportarJson

SpecCapas == InitCapas /\ [][NextCapas]_vars

(***************************************************************************)
(* SpecKml: parsear_kml followed by crear_mascara_poligono(Ancho, Alto),   *)
(* on KML files whose first ring is a rectangle, alone or followed by the  *)
(* ring of a hole, or a ring of fewer than three vertices, and on a file   *)
(* without coordinates.                                                    *)
(***************************************************************************)
Coordenada == 0..MaxCoord

Puntos == Coordenada \X Coordenada

\* the closed ring of the rectangle [x0, x1] x [y0, y1]
AnilloRectangulo(x0, y0, x1, y1) ==
  << <<x0, y0>>, <<x1, y0>>, <<x1, y1>>, <<x0, y1>>, <<x0, y0>> >>

Rectangulos ==
  {AnilloRectangulo(x0, y0, x1, y1) :
     <<x0, y0, x1, y1>> \in
       {t \in Coordenada \X Coordenada \X Coordenada \X Coordenada :
          t[1] < t[3] /\ t[2] < t[4]}}

AnillosDegenerados ==
  {<<>>} \cup {<<p>> : p \in Puntos}
         \cup {<<p, q>> : <<p, q>> \in {t \in Puntos \X Puntos : t[1] # t[2]}}

\* a rectangle and, after it in the file, a hole strictly inside it
DocumentosConHueco ==
  {<<AnilloRectangulo(e[1], e[2], e[3], e[4]), AnilloRectangulo(e[5], e[6], e[7], e[8])>> :
     e \in {t \in [1..8 -> Coordenada] :
              /\ t[1] < t[5] /\ t[5] < t[7] /\ t[7] < t[3]
              /\ t[2] < t[6] /\ t[6] < t[8] /\ t[8] < t[4]}}

Documentos ==
  {<<>>} \cup {<<r>> : r \in Rectangulos \cup AnillosDegenerados}
         \cup DocumentosConHueco

InitKml ==
  /\ kml \in Documentos
  /\ coordenadas = None
  /\ bbox = None
  /\ SinParcela
  /\ mascara = None
  /\ pc = "inicio"
  /\ respuestas = None /\ resultados = <<>> /\ indice = 0
  /\ informe = None /\ ranking = None
  /\ SinPixeles
  /\ SinClasificar
  /\ SinEncuadre
  /\ SinCuota

\* parsear_kml()
ParsearKml ==
  /\ pc = "inicio"
  /\ LET r == parsear_kml(kml)
     IN IF r.kind = "raise"
          THEN /\ pc' = "error_kml"
               /\ coordenadas' = r.coordenadas
               /\ UNCHANGED bbox
          ELSE /\ pc' = "parseado"
               /\ coordenadas' = r.coordenadas
               /\ bbox' = r.bbox
  /\ UNCHANGED <<kml, coords, gml_coords, mascara,
                  varsPixeles, varsClasificar, varsEncuadre, varsCuota,
                  respuestas, resultados, indice, informe, ranking>>

\* crear_mascara_poligono(Ancho, Alto)
CrearMascaraPoligono ==
  /\ pc = "parseado"
  /\ LET r == crear_mascara_poligono(coordenadas, bbox, Ancho, Alto)
     IN IF r.kind = "raise"
          THEN /\ pc' = "excepcion"
               /\ UNCHANGED mascara
          ELSE /\ pc' = "mascara"
               /\ mascara' = r.mascara
  /\ UNCHANGED <<varsKml, varsPixeles, varsClasificar, varsEncuadre, varsCuota,
                  respuestas, resultados, indice, informe, ranking>>

NextKml ==
  \/ ParsearKml
  \/ CrearMascaraPoligono

SpecKml == InitKml /\ [][NextKml]_vars

(***************************************************************************)
(* Spec15: a KML file of 15.py: get_bbox_from_polygons, then               *)
(* calcular_porcentaje_pixeles on the raster of a layer.  The parcel is    *)
(* one rectangle or two disjoint ones.                                     *)
(***************************************************************************)
\* the ring of a rectangle with corners in 0..MaxCoord, in halves
AnilloEnMedios(x0, y0, x1, y1) == AnilloRectangulo(2 * x0, 2 * y0, 2 * x1, 2 * y1)

Cajas ==
  {t \in Coordenada \X Coordenada \X Coordenada \X Coordenada :
     t[1] < t[3] /\ t[2] < t[4]}

Separadas(a, b) ==
  a[3] < b[1] \/ b[3] < a[1] \/ a[4] < b[2] \/ b[4] < a[2]

UnPoligono == {<< <<AnilloEnMedios(a[1], a[2], a[3], a[4])>> >> : a \in Cajas}

DosPoligonos ==
  {<< <<AnilloEnMedios(t[1][1], t[1][2], t[1][3], t[1][4])>>,
      <<AnilloEnMedios(t[2][1], t[2][2], t[2][3], t[2][4])>> >> :
     t \in {u \in Cajas \X Cajas : Separadas(u[1], u[2])}}

\* rasters of a layer: nothing drawn, everything drawn, and the northern
\* row alone drawn
ImagenesCapa ==
  {[w |-> AnchoCapa, h |-> AltoCapa,
    px |-> [k \in 1..(AnchoCapa * AltoCapa) |-> c]] :
     c \in {Blanco, <<20, 130, 10>>}}
  \cup {[w |-> AnchoCapa, h |-> AltoCapa,
          px |-> [k \in 1..(AnchoCapa * AltoCapa) |->
                    IF k <= AnchoCapa THEN <<20, 130, 10>> ELSE Blanco]]}

Init15 ==
  /\ polygons \in {<<>>} \cup UnPoligono \cup DosPoligonos
  /\ imagen \in ImagenesCapa
  /\ bbox = None
  /\ mascara = None
  /\ porcentaje = None
  /\ pc = "inicio"
  /\ total_bounds = <<>> /\ encuadre_factor = 0 /\ extent = <<>>
  /\ capa = "montes_publicos" /\ analisis = None /\ mask_total = None
  /\ tolerancia = 0 /\ llamadas = 0
  /\ nivel = None
  /\ respuestas = None /\ resultados = <<>> /\ indice = 0
  /\ informe = None /\ ranking = None
  /\ SinKml
  /\ SinCuota

\* bbox = get_bbox_from_polygons(polygons); the ValueError of a file
\* without polygons is caught by the caller, which skips the file
GetBboxFromPolygons ==
  /\ pc = "inicio"
  /\ IF all_coords(polygons) = {}
       THEN pc' = "error" /\ UNCHANGED bbox
       ELSE pc' = "bbox" /\ bbox' = get_bbox_from_polygons(polygons)
  /\ UNCHANGED <<imagen, mascara, capa, analisis, mask_total, tolerancia, llamadas,
                  varsClasificar, varsEncuadre, varsCuota,
                  kml, coordenadas, coords, gml_coords,
                  respuestas, resultados, indice, informe, ranking>>

\* porcentaje = calcular_porcentaje_pixeles(polygons, capa_img, bbox, umbral=u)
CalcularPorcentajePixeles(u) ==
  /\ pc = "bbox"
  /\ imagen # None
  /\ LET r == calcular_porcentaje_pixeles(polygons, imagen, bbox, u)
     IN /\ mascara' = r.mask
        /\ porcentaje' = r.porcentaje
  /\ tolerancia' = u
  /\ pc' = "porcentaje"
  /\ UNCHANGED <<imagen, capa, analisis, mask_total, llamadas, nivel,
                  varsKml, varsEncuadre, varsCuota,
                  respuestas, resultados, indice, informe, ranking>>

Next15 ==
  \/ GetBboxFromPolygons
  \/ \E u \in Umbrales : CalcularPorcentajePixeles(u)

Spec15 == Init15 /\ [][Next15]_vars

(***************************************************************************)
(* SpecEncuadre: the two expansions of a bounding box:                     *)
(* get_bbox_from_polygons of 15.py on a parcel, and the framing step of    *)
(* ejecutar_analisis on the bounds of a parcel, for encuadre_factor from 1 *)
(* to the value __init__ sets.                                             *)
(***************************************************************************)
\* parcela.total_bounds: (minx, miny, maxx, maxy), in halves
TotalBounds ==
  {<<2 * t[1], 2 * t[2], 2 * t[3], 2 * t[4]>> :
     t \in {u \in Coordenada \X Coordenada \X Coordenada \X Coordenada :
              u[1] <= u[3] /\ u[2] <= u[4]}}

InitEncuadre ==
  /\ polygons \in UnPoligono
  /\ total_bounds \in TotalBounds
  /\ encuadre_factor \in 1..EncuadrePorDefecto
  /\ extent = <<>>
  /\ bbox = None
  /\ pc = "inicio"
  /\ mascara = None
  /\ respuestas = None /\ resultados = <<>> /\ indice = 0
  /\ informe = None /\ ranking = None
  /\ SinPixeles
  /\ SinClasificar
  /\ SinKml
  /\ SinCuota

\* step 2 of ejecutar_analisis: the extent of the maps
CalcularEncuadre ==
  /\ extent = <<>>
  /\ extent' = encuadre(total_bounds, encuadre_factor)
  /\ UNCHANGED <<imagen, mascara, capa, analisis, mask_total, tolerancia, llamadas,
                  varsClasificar, varsKml, varsCuota,
                  polygons, total_bounds, encuadre_factor,
                  respuestas, resultados, pc, indice, informe, ranking>>

NextEncuadre ==
  \/ GetBboxFromPolygons
  \/ CalcularEncuadre

SpecEncuadre == InitEncuadre /\ [][NextEncuadre]_vars

(***************************************************************************)
(* SpecCuota: create_query requests of one authenticated user              *)
(* (src/routers/catastro.py) behind the dependency check_query_limit       *)
(* (src/auth/dependencies.py), and the background tasks they schedule.     *)
(* The dependencies and the handler are coroutines that never await        *)
(* between the load of the subscription and the return: on the event loop  *)
(* of one worker the handler of a request runs from its checks to its      *)
(* response before the handler of another starts.  The background          *)
(* tasks run in the thread pool, at any time after the response.           *)
(***************************************************************************)
Peticiones == 1..NReq

Estados == {"active", "cancelled", "expired", "past_due"}

Suscripciones ==
  {None} \cup [status : Estados,
                queries_used : 0..MaxLimite,
                queries_limit : 0..MaxLimite]

\* check_subscription_active: 403 without a row or with a status that is
\* not ACTIVE
check_subscription_active(sub) ==
  IF sub = None THEN 403
  ELSE IF sub.status # "active" THEN 403
  ELSE 200

\* mutant: the limit itself is still allowed
check_query_limit_mayor(sub) ==
  IF check_subscription_active(sub) = 403 THEN 403
  ELSE IF sub.queries_used > sub.queries_limit THEN 403
  ELSE 200

\* check_query_limit, which depends on check_subscription_active
check_query_limit(sub) ==
  IF check_subscription_active(sub) = 403 THEN 403
  ELSE IF sub.queries_used >= sub.queries_limit THEN 403
  ELSE 200

\* models.Query(...) of request r, whose id stands for the uuid
NuevaConsulta(r) == [id |-> r, has_climate_data |-> FALSE, has_pdf |-> FALSE]

EnCurso(r) == peticion[r].pc \in {"verificado", "confirmado"}

InitCuota ==
  /\ subscription \in Suscripciones
  /\ queries = {}
  /\ tareas = {}
  /\ peticion = [r \in Peticiones |-> [pc |-> "inicio", leido |-> 0]]
  /\ mascara = None
  /\ SinPixeles
  /\ SinClasificar
  /\ SinCapas
  /\ SinKml
  /\ SinEncuadre

\* the dependencies of create_query: the subscription is loaded into the
\* session and checked; HTTPException(403) ends the request
VerificarCuota(r) ==
  /\ peticion[r].pc = "inicio"
  /\ \A q \in Peticiones : ~EnCurso(q)
  /\ IF check_query_limit(subscription) = 403
       THEN peticion' = [peticion EXCEPT ![r].pc = "rechazado"]
       ELSE peticion' = [peticion EXCEPT ![r] =
                           [pc |-> "verificado", leido |-> subscription.queries_used]]
  /\ UNCHANGED <<subscription, queries, tareas, mascara, varsPixeles,
                  varsClasificar, varsCapas, varsKml, varsEncuadre>>

\* mutant: the commit stores the Query and leaves the counter as it was
CrearConsulta_sinIncremento(r) ==
  /\ peticion[r].pc = "verificado"
  /\ queries' = queries \cup {NuevaConsulta(r)}
  /\ peticion' = [peticion EXCEPT ![r].pc = "confirmado"]
  /\ UNCHANGED <<subscription, tareas, mascara, varsPixeles,
                  varsClasificar, varsCapas, varsKml, varsEncuadre>>

\* the body of create_query up to db.commit(): the new Query and the
\* counter of the subscription object of the session, plus one, are
\* written in one commit
CrearConsulta(r) ==
  /\ peticion[r].pc = "verificado"
  /\ queries' = queries \cup {NuevaConsulta(r)}
  /\ subscription' = [subscription EXCEPT !.queries_used = peticion[r].leido + 1]
  /\ peticion' = [peticion EXCEPT ![r].pc = "confirmado"]
  /\ UNCHANGED <<tareas, mascara, varsPixeles,
                  varsClasificar, varsCapas, varsKml, varsEncuadre>>

\* background_tasks.add_task(run_catastro_process, ...) and the return
ProgramarTarea(r) ==
  /\ peticion[r].pc = "confirmado"
  /\ tareas' = tareas \cup {r}
  /\ peticion' = [peticion EXCEPT ![r].pc = "respondido"]
  /\ UNCHANGED <<subscription, queries, mascara, varsPixeles,
                  varsClasificar, varsCapas, varsKml, varsEncuadre>>

\* run_catastro_process with the results of procesar_y_comprimir
EjecutarTarea(r, pdf, capas_afecciones) ==
  /\ peticion[r].pc = "respondido"
  /\ r \in tareas
  /\ queries' = {IF q.id = r
                    THEN [q EXCEPT !.has_pdf = pdf, !.has_climate_data = capas_afecciones]
                    ELSE q : q \in queries}
  /\ peticion' = [peticion EXCEPT ![r].pc = "procesado"]
  /\ UNCHANGED <<subscription, tareas, mascara, varsPixeles,
                  varsClasificar, varsCapas, varsKml, varsEncuadre>>

\* run_catastro_process when procesar_y_comprimir raises: the exception
\* is caught and nothing is written
EjecutarTareaFallida(r) ==
  /\ peticion[r].pc = "respondido"
  /\ r \in tareas
  /\ peticion' = [peticion EXCEPT ![r].pc = "procesado"]
  /\ UNCHANGED <<subscription, queries, tareas, mascara, varsPixeles,
                  varsClasificar, varsCapas, varsKml, varsEncuadre>>

NextCuota ==
  \E r \in Peticiones :
    \/ VerificarCuota(r)
    \/ CrearConsulta(r)
    \/ ProgramarTarea(r)
    \/ \E pdf \in BOOLEAN, capas_afecciones \in BOOLEAN :
         EjecutarTarea(r, pdf, capas_afecciones)
    \/ EjecutarTareaFallida(r)

SpecCuota == InitCuota /\ [][NextCuota]_vars

(***************************************************************************)
(* Reference notions the claims are stated with.                           *)
(***************************************************************************)
\* position i is inside the polygon mask (every position without a mask)
EnMascara(i) == mascara = None \/ mascara.m[i]

\* a blank pixel: all three channels above the threshold
PixelBlanco(p) == \A ch \in 1..3 : p[ch] > UmbralBlanco

\* p is within tolerance t of at least one colour of the sequence cs
CoincideCon(p, cs, t) ==
  \E k \in 1..Len(cs) : \A ch \in 1..3 : Abs(p[ch] - cs[k][ch]) <= t

\* p is matched by the configured layer
Coincide(p, nombre_capa) ==
  CoincideCon(p, capas[nombre_capa].colores_posibles, capas[nombre_capa].tolerancia)

\* number of target colours of the layer that p is within tolerance of
NumCoincidencias(p, nombre_capa) ==
  Cardinality({k \in 1..Len(capas[nombre_capa].colores_posibles) :
                 \A ch \in 1..3 :
                   Abs(p[ch] - capas[nombre_capa].colores_posibles[k][ch])
                     <= capas[nombre_capa].tolerancia})

Analizado == analisis # None /\ analisis.kind = "ok"

DentroBlancos == {i \in Posiciones : EnMascara(i) /\ PixelBlanco(imagen.px[i])}

DentroCoinciden == {i \in Posiciones : EnMascara(i) /\ Coincide(imagen.px[i], capa)}

(***************************************************************************)
(* Claims on analizar_pixeles (specification Spec).                        *)
(***************************************************************************)
\* C1: when the mask selects no pixel, analizar_pixeles returns
\* pixels_blancos = 0, area_util = 0, pixels_afectados = 0 and both
\* percentages equal to the number 0 (not NaN, not negative).
C1_ZeroArea ==
  (Analizado /\ analisis.total_pixels_poligono = 0) =>
    /\ analisis.pixels_blancos = 0
    /\ analisis.area_util = 0
    /\ analisis.pixels_afectados = 0
    /\ analisis.porcentaje_afectacion = Fin(0)
    /\ analisis.porcentaje_sobre_total = Fin(0)

\* C2: pixels_blancos is the number of in-mask pixels whose three channels
\* are all > 240 and area_util = total_pixels_poligono - pixels_blancos; an
\* all-white polygon gives pixels_blancos = total, area_util = 0 and
\* porcentaje_afectacion = 0.
C2_BlankCount ==
  Analizado =>
    /\ analisis.pixels_blancos = Cardinality(DentroBlancos)
    /\ analisis.area_util = analisis.total_pixels_poligono - analisis.pixels_blancos
    /\ (Cardinality(DentroBlancos) = analisis.total_pixels_poligono =>
          /\ analisis.area_util = 0
          /\ analisis.porcentaje_afectacion = Fin(0))

\* C3: porcentaje_afectacion = pixels_afectados / area_util * 100 when
\* area_util > 0 and 0 otherwise; porcentaje_sobre_total =
\* pixels_afectados / total_pixels_poligono * 100 when the total is > 0 and
\* 0 otherwise; both rounded to 2 decimals.
C3_Percentages ==
  Analizado =>
    /\ analisis.porcentaje_afectacion =
         IF analisis.area_util > 0
           THEN Porcentaje(analisis.pixels_afectados, analisis.area_util)
           ELSE Fin(0)
    /\ analisis.porcentaje_sobre_total =
         IF analisis.total_pixels_poligono > 0
           THEN Porcentaje(analisis.pixels_afectados, analisis.total_pixels_poligono)
           ELSE Fin(0)

\* C4: two calls of analizar_pixeles for the same layer and mask, on images
\* that agree on every in-mask pixel, return the same result (counts,
\* percentages and colour histogram), whatever the pixels outside the mask.
C4_FueraDeMascara ==
  [][(/\ Analizado
      /\ mascara # None
      /\ mascara' = mascara
      /\ capa' = capa
      /\ \A i \in Posiciones : mascara.m[i] => imagen'.px[i] = imagen.px[i])
     => analisis' = analisis]_vars

\* C4 witness: an analysed image with a pixel outside the mask that the
\* layer's colours match and a pixel inside it, where only in-mask pixels
\* were counted.
C4_Witness ==
  /\ Analizado
  /\ mascara # None
  /\ \E i \in Posiciones : ~mascara.m[i] /\ Coincide(imagen.px[i], capa)
  /\ \E i \in Posiciones : mascara.m[i] /\ Coincide(imagen.px[i], capa)
  /\ analisis.pixels_afectados = Cardinality(DentroCoinciden)
  /\ analisis.total_pixels_poligono < NPix

\* C5: detectar_color_multiple marks a pixel iff some target colour has all
\* three channel differences <= tolerancia, and pixels_afectados counts each
\* matched in-mask pixel once, however many target colours it matches.
C5_DeteccionOR ==
  Analizado =>
    /\ \A i \in Posiciones :
         mask_total[i] <=>
           Coincide(IF EnMascara(i) THEN imagen.px[i] ELSE Blanco, capa)
    /\ analisis.pixels_afectados = Cardinality(DentroCoinciden)

\* C5 witness: an in-mask pixel within tolerance of two target colours,
\* counted once.
C5_Witness ==
  /\ Analizado
  /\ \E i \in Posiciones :
       /\ EnMascara(i)
       /\ NumCoincidencias(imagen.px[i], capa) >= 2
       /\ mask_total[i]
       /\ DentroCoinciden = {i}
  /\ analisis.pixels_afectados = 1

C6_Monotona ==
  [][(/\ mask_total # None
      /\ imagen' = imagen
      /\ capa' = capa
      /\ tolerancia' >= tolerancia)
     => /\ \A i \in Posiciones : mask_total[i] => mask_total'[i]
        /\ SumaBool(mask_total') >= SumaBool(mask_total)]_vars

\* C6 witness: a call whose tolerance matches a pixel that a smaller
\* tolerance of the range does not match, next to an unmatched pixel.
C6_Witness ==
  /\ mask_total # None
  /\ analisis = None
  /\ \E i \in Posiciones, t \in Tolerancias :
       /\ t < tolerancia
       /\ mask_total[i]
       /\ ~CoincideCon(imagen.px[i], capas[capa].colores_posibles, t)
  /\ \E i \in Posiciones : ~mask_total[i]

(***************************************************************************)
(* Claims on clasificar_afectacion (specification SpecClasificar).         *)
(***************************************************************************)
Niveles == {"SIN AFECTACION", "MUY BAJA", "BAJA", "MODERADA", "ALTA", "MUY ALTA"}

\* C7: on [0, 100] clasificar_afectacion returns exactly one level, with
\* inclusive lower bounds: 0 -> SIN AFECTACION, (0,5) -> MUY BAJA,
\* [5,15) -> BAJA, [15,35) -> MODERADA, [35,60) -> ALTA, [60,100] -> MUY ALTA.
C7_Clasificacion ==
  (nivel # None /\ porcentaje.cls = "fin"
     /\ porcentaje.v >= 0 /\ porcentaje.v <= 100 * Centesimas) =>
    LET v == porcentaje.v
        n == nivel[1]
    IN /\ n \in Niveles
       /\ (n = "SIN AFECTACION") <=> (v = 0)
       /\ (n = "MUY BAJA") <=> (0 < v /\ v < 5 * Centesimas)
       /\ (n = "BAJA") <=> (5 * Centesimas <= v /\ v < 15 * Centesimas)
       /\ (n = "MODERADA") <=> (15 * Centesimas <= v /\ v < 35 * Centesimas)
       /\ (n = "ALTA") <=> (35 * Centesimas <= v /\ v < 60 * Centesimas)
       /\ (n = "MUY ALTA") <=> (60 * Centesimas <= v)

\* C7 witness: the boundary 5.0 has been classified, as BAJA.
C7_Witness ==
  /\ nivel # None
  /\ porcentaje = Fin(5 * Centesimas)
  /\ nivel[1] = "BAJA"

(***************************************************************************)
(* Claims on analizar_todas_capas and exportar_json (specification         *)
(* SpecCapas).                                                             *)
(***************************************************************************)
\* the run of analizar_todas_capas is over: it returned or it raised
CorridaTerminada == pc \in {"fin", "excepcion", "exportado"}

\* every raster that arrived has the size of the mask
FormasCorrectas ==
  \A n \in NombresCapas :
    respuestas[n] # None => ~FormaDistinta(respuestas[n], mascara)

\* C8: whatever subset of the layers fails to download (the rasters that do
\* arrive having the requested size), the run ends without raising with one
\* entry per configured layer: the error variant for each failed layer, and
\* for each other layer the full result of its own raster.
C8_FalloParcial ==
  (CorridaTerminada /\ FormasCorrectas) =>
    /\ pc # "excepcion"
    /\ DOMAIN resultados = NombresCapas
    /\ \A n \in NombresCapas :
         IF respuestas[n] = None
           THEN /\ resultados[n].imagen = None
                /\ resultados[n].analisis.kind = "error"
           ELSE /\ resultados[n].imagen = respuestas[n]
                /\ resultados[n].analisis.kind = "ok"
                /\ resultados[n].analisis = analizar_pixeles(respuestas[n], n, mascara)

\* C8 witness: the run returned although the first layer and a later one
\* failed, and a layer after a failed one carries a result with affected
\* pixels.
C8_Witness ==
  /\ pc = "fin"
  /\ respuestas[OrdenCapas[1]] = None
  /\ respuestas[OrdenCapas[3]] = None
  /\ resultados[OrdenCapas[1]].analisis.kind = "error"
  /\ resultados[OrdenCapas[2]].analisis.kind = "ok"
  /\ resultados[OrdenCapas[4]].analisis.kind = "ok"
  /\ resultados[OrdenCapas[4]].analisis.pixels_afectados > 0

\* C9: the report written by exportar_json has an entry for every
\* configured layer, failed or not.
C9_InformeCompleto ==
  informe # None => DOMAIN informe.afecciones = NombresCapas

\* C10: a raster whose size is not the mask's gives the error variant for
\* its layer, and the run still returns with an entry for every layer.
C10_FormaDistinta ==
  CorridaTerminada =>
    \A n \in NombresCapas :
      (respuestas[n] # None /\ FormaDistinta(respuestas[n], mascara)) =>
        /\ pc # "excepcion"
        /\ DOMAIN resultados = NombresCapas
        /\ resultados[n].analisis.kind = "error"

\* the layers of the run that were analysed without error
CapasAnalizadas ==
  {n \in DOMAIN resultados : resultados[n].analisis.kind # "error"}

\* a >= b on floats
FloatMayorIgual(a, b) ==
  a.cls = "fin" /\ b.cls = "fin" /\ a.v >= b.v

\* C17: the ranking of generar_informe has exactly one entry for every
\* layer analysed without error, none for a failed layer, each with the
\* porcentaje_afectacion of its layer, and the percentages do not
\* increase along it.
C17_Ranking ==
  ranking # None =>
    LET r == ranking.afectaciones
    IN /\ Len(r) = Cardinality(CapasAnalizadas)
       /\ \A n \in CapasAnalizadas :
            \E k \in 1..Len(r) :
              r[k] = <<titulo(n), resultados[n].analisis.porcentaje_afectacion>>
       /\ \A k \in 1..(Len(r) - 1) : FloatMayorIgual(r[k][2], r[k + 1][2])

\* C17 witness: a ranking of at least two layers that leaves a failed
\* layer out and whose first entry is not the first layer analysed,
\* because a later layer has a larger percentage.
C17_Witness ==
  /\ ranking # None
  /\ Len(ranking.afectaciones) >= 2
  /\ Len(ranking.afectaciones) < Len(OrdenCapas)
  /\ \E k \in 2..Len(OrdenCapas) :
       /\ OrdenCapas[k] \in CapasAnalizadas
       /\ ranking.afectaciones[1][1] = titulo(OrdenCapas[k])
       /\ \E j \in 1..(k - 1) :
            /\ OrdenCapas[j] \in CapasAnalizadas
            /\ resultados[OrdenCapas[j]].analisis.porcentaje_afectacion.v
                 < resultados[OrdenCapas[k]].analisis.porcentaje_afectacion.v

(***************************************************************************)
(* Claims on parsear_kml and crear_mascara_poligono (specification         *)
(* SpecKml).                                                               *)
(***************************************************************************)
\* the pixels of the Ancho x Alto mask
Celdas == (0..(Ancho - 1)) \X (0..(Alto - 1))

\* position of pixel (x, y) in the row-major mask
Idx(x, y) == y * Ancho + x + 1

\* the centre of pixel (x, y), mapped with the bbox the analyser holds
\* (lon = minx + (x + 1/2)/Ancho * (maxx - minx),
\*  lat = maxy - (y + 1/2)/Alto * (maxy - miny)), lies in the closed
\* rectangle spanned by the ring
CentroDentro(x, y, ring) ==
  LET cx == (2 * x + 1) * (bbox.maxx - bbox.minx)
      cy == (2 * y + 1) * (bbox.maxy - bbox.miny)
  IN /\ 2 * Ancho * (MinDe(Lons(ring)) - bbox.minx) <= cx
     /\ cx <= 2 * Ancho * (MaxDe(Lons(ring)) - bbox.minx)
     /\ 2 * Alto * (bbox.maxy - MaxDe(Lats(ring))) <= cy
     /\ cy <= 2 * Alto * (bbox.maxy - MinDe(Lats(ring)))

\* ... lies strictly inside it
CentroDentroEstricto(x, y, ring) ==
  LET cx == (2 * x + 1) * (bbox.maxx - bbox.minx)
      cy == (2 * y + 1) * (bbox.maxy - bbox.miny)
  IN /\ 2 * Ancho * (MinDe(Lons(ring)) - bbox.minx) < cx
     /\ cx < 2 * Ancho * (MaxDe(Lons(ring)) - bbox.minx)
     /\ 2 * Alto * (bbox.maxy - MaxDe(Lats(ring))) < cy
     /\ cy < 2 * Alto * (bbox.maxy - MinDe(Lats(ring)))

MascaraConstruida == pc = "mascara"

\* C12: for a polygon with a hole the mask is true exactly at the pixels
\* whose centre is inside the exterior ring and not strictly inside the
\* hole.
C12_Huecos ==
  (MascaraConstruida /\ Len(kml) = 2) =>
    \A c \in Celdas :
      mascara.m[Idx(c[1], c[2])] <=>
        (CentroDentro(c[1], c[2], kml[1]) /\ ~CentroDentroEstricto(c[1], c[2], kml[2]))

SinExtension ==
  \/ kml = <<>>
  \/ kml[1] = <<>>
  \/ Cardinality(Lons(kml[1])) = 1
  \/ Cardinality(Lats(kml[1])) = 1

\* C14: a bbox the analyser holds has minx < maxx and miny < maxy, and a
\* file without vertices or without extent on an axis is rejected by
\* parsear_kml.
C14_BboxValido ==
  /\ bbox # None => (bbox.minx < bbox.maxx /\ bbox.miny < bbox.maxy)
  /\ (SinExtension /\ pc # "inicio") => pc = "error_kml"

\* C20: a file whose only ring has fewer than three vertices never gets a
\* mask: parsear_kml or crear_mascara_poligono raises.
C20_AnilloDegenerado ==
  (Len(kml) = 1 /\ Len(kml[1]) < 3) =>
    /\ mascara = None
    /\ pc \in {"inicio", "parseado", "error_kml", "excepcion"}

(***************************************************************************)
(* Claims on the masks of 15.py (specification Spec15).                    *)
(***************************************************************************)
\* the raster of a WMS GetMap has its first row at the north edge of the
\* bbox: row i of capa_img shows the latitude that np.linspace gives for
\* row height - 1 - i
mask_norte_arriba(polys, bb, width, height) ==
  [k \in 1..(width * height) |->
     LET j == (k - 1) % width
         i == (k - 1) \div width
     IN contains(polys, LinNum(bb[2], bb[4], width, j), LinDen(width),
                        LinNum(bb[1], bb[3], height, height - 1 - i), LinDen(height))]

\* C15: the mask calcular_porcentaje_pixeles builds has row 0 at the
\* maximum latitude of the bbox and the last row at the minimum, so that
\* mask cell (x, y) is the ground location of image pixel (x, y).
C15_FilasNorteSur ==
  pc = "porcentaje" =>
    mascara.m = mask_norte_arriba(polygons, bbox, AnchoCapa, AltoCapa)

(***************************************************************************)
(* Claims on the expansion of a bounding box (specification SpecEncuadre). *)
(***************************************************************************)
\* C16: the box get_bbox_from_polygons returns has the centre of the box
\* of the vertices and ZoomFactor times its extents; the extent of
\* ejecutar_analisis has the centre of total_bounds and encuadre_factor
\* times its extents, and is total_bounds itself for encuadre_factor 1.
C16_ExpansionSimetrica ==
  /\ pc = "bbox" =>
       LET lons == {c[1] : c \in all_coords(polygons)}
           lats == {c[2] : c \in all_coords(polygons)}
       IN /\ bbox[1] + bbox[3] = MinDe(lats) + MaxDe(lats)
          /\ bbox[2] + bbox[4] = MinDe(lons) + MaxDe(lons)
          /\ bbox[3] - bbox[1] = ZoomFactor * (MaxDe(lats) - MinDe(lats))
          /\ bbox[4] - bbox[2] = ZoomFactor * (MaxDe(lons) - MinDe(lons))
  /\ extent # <<>> =>
       /\ extent[1] + extent[2] = total_bounds[1] + total_bounds[3]
       /\ extent[3] + extent[4] = total_bounds[2] + total_bounds[4]
       /\ extent[2] - extent[1] = encuadre_factor * (total_bounds[3] - total_bounds[1])
       /\ extent[4] - extent[3] = encuadre_factor * (total_bounds[4] - total_bounds[2])
       /\ encuadre_factor = 1 =>
            extent = <<total_bounds[1], total_bounds[3], total_bounds[2], total_bounds[4]>>

\* C16 witness: both expansions have been computed, on boxes that are not
\* squares and do not sit at the origin, the second with the default
\* factor.
C16_Witness ==
  /\ pc = "bbox"
  /\ polygons = << <<AnilloEnMedios(1, 1, 2, 3)>> >>
  /\ bbox = <<-2, 0, 10, 6>>
  /\ total_bounds = <<2, 4, 6, 6>>
  /\ encuadre_factor = EncuadrePorDefecto
  /\ extent = <<-4, 12, 1, 9>>

(***************************************************************************)
(* Claims on create_query (specification SpecCuota).                       *)
(***************************************************************************)
\* the user has a subscription, it is ACTIVE and queries remain
ConsultasDisponibles ==
  /\ subscription # None
  /\ subscription.status = "active"
  /\ subscription.queries_used < subscription.queries_limit

ConsultasDe(r, qs) == {q \in qs : q.id = r}

\* C18: a request passes the checks only if queries are available; the
\* table queries and the subscription change together, in the commit of a
\* request that passed the checks, which adds exactly one Query and adds
\* exactly 1 to queries_used; a task is scheduled only for a request whose
\* commit is done; no other step, the task included, changes queries_used.
C18_PasosEnOrden ==
  [][\A r \in Peticiones :
       LET pasa == peticion[r].pc = "inicio" /\ peticion'[r].pc = "verificado"
           confirma == peticion[r].pc # "confirmado" /\ peticion'[r].pc = "confirmado"
           programa == r \in tareas' \ tareas
       IN /\ pasa => ConsultasDisponibles
          /\ confirma =>
               /\ peticion[r].pc = "verificado"
               /\ ConsultasDe(r, queries) = {}
               /\ queries' = queries \cup {NuevaConsulta(r)}
               /\ subscription'.queries_used = subscription.queries_used + 1
               /\ r \notin tareas
          /\ programa =>
               /\ peticion[r].pc = "confirmado"
               /\ Cardinality(ConsultasDe(r, queries)) = 1
          /\ (Cardinality(ConsultasDe(r, queries')) # Cardinality(ConsultasDe(r, queries)))
               => confirma
          /\ (subscription' # subscription) =>
               \E q \in Peticiones :
                 peticion[q].pc = "verificado" /\ peticion'[q].pc = "confirmado"]_vars

\* C18 witness: both requests were accepted in turn, each has its Query
\* and its task, the counter went up by two, and a task has written its
\* results.
C18_Witness ==
  /\ \A r \in Peticiones : peticion[r].pc \in {"respondido", "procesado"}
  /\ Cardinality(queries) = NReq
  /\ tareas = Peticiones
  /\ subscription.queries_used = NReq
  /\ \E q \in queries : q.has_pdf

\* C19: a request of a user without subscription, with a subscription that
\* is not ACTIVE or with queries_used >= queries_limit is rejected, and
\* its rejection creates no Query, leaves the subscription as it was and
\* schedules no task, then and later.
C19_Rechazo ==
  [][\A r \in Peticiones :
       /\ (peticion[r].pc = "inicio" /\ peticion'[r].pc # "inicio" /\ ~ConsultasDisponibles)
            => /\ peticion'[r].pc = "rechazado"
               /\ queries' = queries
               /\ subscription' = subscription
               /\ tareas' = tareas
       /\ peticion'[r].pc = "rechazado"
            => /\ ConsultasDe(r, queries') = {}
               /\ r \notin tareas']_vars

\* C19 witness: the first request used the last query of an ACTIVE
\* subscription and the second was rejected for the limit, leaving one
\* Query and one task.
C19_Witness ==
  /\ peticion[1].pc = "respondido"
  /\ peticion[2].pc = "rechazado"
  /\ subscription # None
  /\ subscription.status = "active"
  /\ subscription.queries_used = subscription.queries_limit
  /\ subscription.queries_limit = MaxLimite
  /\ {q.id : q \in queries} = {1}
  /\ tareas = {1}

(***************************************************************************)
(* SpecOrden: the loop body of analizar_todas_capas applied to the layers  *)
(* in any order, for every outcome of the four WMS requests.               *)
(***************************************************************************)
\* mutant: the analysis of a layer takes its affected pixels out of the mask
AnalizarCapaDe_consumeMascara(nombre_capa) ==
  /\ pc = "bucle"
  /\ nombre_capa \notin DOMAIN resultados
  /\ LET img == descargar_capa_wms(nombre_capa)
         det == DeteccionEnAnalisis(img, nombre_capa, mascara)
         a == AnalisisCon(img, nombre_capa, mascara, det)
     IN /\ imagen' = img
        /\ capa' = nombre_capa
        /\ mask_total' = det
        /\ analisis' = a
        /\ mascara' = IF a.kind = "ok"
                        THEN [mascara EXCEPT !.m =
                               [i \in DOMAIN mascara.m |-> mascara.m[i] /\ ~det[i]]]
                        ELSE mascara
        /\ IF a.kind = "raise"
             THEN /\ pc' = "excepcion"
                  /\ UNCHANGED <<resultados, indice>>
             ELSE /\ resultados' = Guardar(resultados, nombre_capa, img, a)
                  /\ indice' = indice + 1
                  /\ pc' = IF indice = Len(OrdenCapas) THEN "fin" ELSE "bucle"
  /\ UNCHANGED <<tolerancia, llamadas, varsClasificar, varsResto,
                  respuestas, informe, ranking>>

\* the body of the loop of analizar_todas_capas for the layer nombre_capa,
\* a layer the loop has not taken yet: download, analyse and store
AnalizarCapaDe(nombre_capa) ==
  /\ pc = "bucle"
  /\ nombre_capa \notin DOMAIN resultados
  /\ LET img == descargar_capa_wms(nombre_capa)
         det == DeteccionEnAnalisis(img, nombre_capa, mascara)
         a == AnalisisCon(img, nombre_capa, mascara, det)
     IN /\ imagen' = img
        /\ capa' = nombre_capa
        /\ mask_total' = det
        /\ analisis' = a
        /\ mascara' = mascara
        /\ IF a.kind = "raise"
             THEN /\ pc' = "excepcion"
                  /\ UNCHANGED <<resultados, indice>>
             ELSE /\ resultados' = Guardar(resultados, nombre_capa, img, a)
                  /\ indice' = indice + 1
                  /\ pc' = IF indice = Len(OrdenCapas) THEN "fin" ELSE "bucle"
  /\ UNCHANGED <<tolerancia, llamadas, varsClasificar, varsResto,
                  respuestas, informe, ranking>>

NextOrden ==
  \/ CrearMascara
  \/ \E nombre_capa \in NombresCapas : AnalizarCapaDe(nombre_capa)

SpecOrden == InitCapas /\ [][NextOrden]_vars

SuscripcionesEnLimite ==
  {s \in Suscripciones \ {None} : s.queries_used <= s.queries_limit}

InitCuotaParalela ==
  /\ subscription \in SuscripcionesEnLimite
  /\ queries = {}
  /\ tareas = {}
  /\ peticion = [r \in Peticiones |-> [pc |-> "inicio", leido |-> 0]]
  /\ mascara = None
  /\ SinPixeles
  /\ SinClasificar
  /\ SinCapas
  /\ SinKml
  /\ SinEncuadre

\* the dependencies of create_query in the session of request r, whatever
\* the other requests are doing
VerificarCuotaEnParalelo(r) ==
  /\ peticion[r].pc = "inicio"
  /\ IF check_query_limit(subscription) = 403
       THEN peticion' = [peticion EXCEPT ![r].pc = "rechazado"]
       ELSE peticion' = [peticion EXCEPT ![r] =
                           [pc |-> "verificado", leido |-> subscription.queries_used]]
  /\ UNCHANGED <<subscription, queries, tareas, mascara, varsPixeles,
                  varsClasificar, varsCapas, varsKml, varsEncuadre>>

NextCuotaParalela ==
  \E r \in Peticiones :
    \/ VerificarCuotaEnParalelo(r)
    \/ CrearConsulta(r)
    \/ ProgramarTarea(r)
    \/ \E pdf \in BOOLEAN, capas_afecciones \in BOOLEAN :
         EjecutarTarea(r, pdf, capas_afecciones)
    \/ EjecutarTareaFallida(r)

SpecCuotaParalela == InitCuotaParalela /\ [][NextCuotaParalela]_vars

(***************************************************************************)
(* Claims on the quota under concurrent requests (specification            *)
(* SpecCuotaParalela).                                                     *)
(***************************************************************************)
\* C22: under every interleaving of the create_query requests of a user,
\* the number of Query records created never exceeds queries_limit and
\* queries_used never exceeds queries_limit.
C22_CuotaNoExcedida ==
  /\ Cardinality(queries) <= subscription.queries_limit
  /\ subscription.queries_used <= subscription.queries_limit

(***************************************************************************)
(* SpecOperaciones: the three operations guarded by check_query_limit,     *)
(* create_query (src/routers/catastro.py), analyze_kml                     *)
(* (src/routers/analysis.py) and analyze_urban_geojson                     *)
(* (src/routers/urban.py), requested by one user and served one at a time  *)
(* by one worker.                                                          *)
(***************************************************************************)
Endpoints == {"create_query", "analyze_kml", "analyze_urban_geojson"}

\* how the handler of an analysis ends: it returns its dictionary, or it
\* raises HTTPException 400 (file name) or 500 (any exception of the run)
Desenlaces == {"success", "400", "500"}

InitOperaciones ==
  /\ subscription \in SuscripcionesEnLimite
  /\ queries = {}
  /\ tareas = {}
  /\ peticion \in [Peticiones ->
                     {[endpoint |-> e, pc |-> "inicio", leido |-> 0] : e \in Endpoints}]
  /\ mascara = None
  /\ SinPixeles
  /\ SinClasificar
  /\ SinCapas
  /\ SinKml
  /\ SinEncuadre

\* Depends(check_query_limit) of any of the three endpoints
VerificarCuotaDe(r) ==
  /\ peticion[r].pc = "inicio"
  /\ \A q \in Peticiones : ~EnCurso(q)
  /\ IF check_query_limit(subscription) = 403
       THEN peticion' = [peticion EXCEPT ![r].pc = "rechazado"]
       ELSE peticion' = [peticion EXCEPT ![r].pc = "verificado",
                                         ![r].leido = subscription.queries_used]
  /\ UNCHANGED <<subscription, queries, tareas, mascara, varsPixeles,
                  varsClasificar, varsCapas, varsKml, varsEncuadre>>

\* the body of create_query up to db.commit()
CrearConsultaDe(r) ==
  /\ peticion[r].endpoint = "create_query"
  /\ CrearConsulta(r)

\* the body of analyze_kml: the analysis runs and the handler returns or
\* raises; it has no database session and writes nothing to the subscription
AnalizarKml(r, desenlace) ==
  /\ peticion[r].endpoint = "analyze_kml"
  /\ peticion[r].pc = "verificado"
  /\ peticion' = [peticion EXCEPT ![r].pc =
                    IF desenlace = "success" THEN "respondido" ELSE "fallido"]
  /\ UNCHANGED <<subscription, queries, tareas, mascara, varsPixeles,
                  varsClasificar, varsCapas, varsKml, varsEncuadre>>

\* the body of analyze_urban_geojson, likewise
AnalizarUrbano(r, desenlace) ==
  /\ peticion[r].endpoint = "analyze_urban_geojson"
  /\ peticion[r].pc = "verificado"
  /\ peticion' = [peticion EXCEPT ![r].pc =
                    IF desenlace = "success" THEN "respondido" ELSE "fallido"]
  /\ UNCHANGED <<subscription, queries, tareas, mascara, varsPixeles,
                  varsClasificar, varsCapas, varsKml, varsEncuadre>>

NextOperaciones ==
  \E r \in Peticiones :
    \/ VerificarCuotaDe(r)
    \/ CrearConsultaDe(r)
    \/ ProgramarTarea(r)
    \/ \E desenlace \in Desenlaces : AnalizarKml(r, desenlace)
    \/ \E desenlace \in Desenlaces : AnalizarUrbano(r, desenlace)
    \/ \E pdf \in BOOLEAN, capas_afecciones \in BOOLEAN :
         EjecutarTarea(r, pdf, capas_afecciones)
    \/ EjecutarTareaFallida(r)

SpecOperaciones == InitOperaciones /\ [][NextOperaciones]_vars

(***************************************************************************)
(* Claims on the quota of the guarded operations (specification            *)
(* SpecOperaciones).                                                       *)
(***************************************************************************)
\* the requests that were answered with success
Exitosas == {r \in Peticiones : peticion[r].pc \in {"respondido", "procesado"}}

\* C23: every guarded operation that passes the check and succeeds adds
\* exactly one to queries_used, and the operations a user has completed are
\* never more than queries_limit.
C23_CadaOperacionConsume ==
  /\ [](Cardinality(Exitosas) <= subscription.queries_limit)
  /\ [][\A r \in Peticiones :
          (peticion[r].pc = "verificado" /\
           peticion'[r].pc \in {"confirmado", "respondido"}) =>
             subscription'.queries_used = subscription.queries_used + 1]_vars

(***************************************************************************)
(* Further claims on analizar_pixeles (specification Spec).                *)
(***************************************************************************)
\* C24: in every non-error result of analizar_pixeles,
\* 0 <= pixels_blancos <= total_pixels_poligono,
\* area_util = total_pixels_poligono - pixels_blancos >= 0 and
\* 0 <= pixels_afectados <= total_pixels_poligono.
C24_Cuentas ==
  Analizado =>
    /\ 0 <= analisis.pixels_blancos
    /\ analisis.pixels_blancos <= analisis.total_pixels_poligono
    /\ analisis.area_util = analisis.total_pixels_poligono - analisis.pixels_blancos
    /\ analisis.area_util >= 0
    /\ 0 <= analisis.pixels_afectados
    /\ analisis.pixels_afectados <= analisis.total_pixels_poligono

(***************************************************************************)
(* SpecRango: calls of analizar_pixeles on images drawn from the colours   *)
(* at the edge of the blank threshold.                                     *)
(***************************************************************************)
\* white; the colour of vias_pecuarias' (205,133,63) with its red channel
\* at the tolerance, which is the blank threshold itself; a colour with one
\* channel above the threshold that no layer matches; a green matched by
\* montes_publicos and red_natura
PaletaLimite ==
  { <<255, 255, 255>>, <<240, 133, 63>>, <<250, 100, 100>>, <<20, 130, 10>> }

ImagenesLimite ==
  {[w |-> NPix, h |-> 1, px |-> p] : p \in [Posiciones -> PaletaLimite]}

InitRango ==
  /\ imagen \in ImagenesLimite
  /\ mascara \in Mascaras \cup {None}
  /\ capa \in NombresCapas
  /\ analisis = None
  /\ mask_total = None
  /\ tolerancia = 0
  /\ llamadas = 0
  /\ SinClasificar
  /\ SinCapas
  /\ SinResto

NextRango == AnalizarPixeles

SpecRango == InitRango /\ [][NextRango]_vars

(***************************************************************************)
(* Claims on the range of the percentages (specification SpecRango).       *)
(***************************************************************************)
\* a float within [0, 100]
EnRango(p) == p.cls = "fin" /\ 0 <= p.v /\ p.v <= 100 * Centesimas

\* C25: for each configured layer, any image and any mask that selects at
\* least one pixel, porcentaje_afectacion and porcentaje_sobre_total are
\* both within [0, 100].
C25_RangoPorcentajes ==
  (Analizado /\ analisis.total_pixels_poligono > 0) =>
    /\ EnRango(analisis.porcentaje_afectacion)
    /\ EnRango(analisis.porcentaje_sobre_total)

\* C25 witness: every pixel of a polygon of at least two pixels is matched
\* by vias_pecuarias with its red channel at the blank threshold, and the
\* result is 100 %.
C25_Witness ==
  /\ Analizado
  /\ capa = "vias_pecuarias"
  /\ analisis.total_pixels_poligono >= 2
  /\ \A i \in Posiciones : EnMascara(i) => imagen.px[i] = <<240, 133, 63>>
  /\ analisis.pixels_afectados = analisis.total_pixels_poligono
  /\ analisis.porcentaje_afectacion = Fin(100 * Centesimas)

(***************************************************************************)
(* SpecRedondeo: the percentage analizar_pixeles stores for given counts   *)
(* and the level the reports compute from it, for small polygons and for   *)
(* polygons on the 1000 x 1000 grid analyze_kml requests.                  *)
(***************************************************************************)
\* the useful areas tried: a few pixels, and fractions of the whole grid
AreasUtiles ==
  (1..MaxArea) \cup {PixelesRejilla \div d : d \in 1..MaxArea}

InitRedondeo ==
  /\ analisis = None
  /\ porcentaje = None
  /\ nivel = None
  /\ mascara = None
  /\ imagen = None
  /\ capa = "montes_publicos"
  /\ mask_total = None
  /\ tolerancia = 0
  /\ llamadas = 0
  /\ SinCapas
  /\ SinResto

\* the end of analizar_pixeles for a polygon without blank pixels in which
\* num_afectados of area_util pixels matched: the counts and the rounded
\* percentage of the result
AnalizarConCuentas(num_afectados, area_util) ==
  /\ analisis = None
  /\ num_afectados <= area_util
  /\ analisis' = [kind |-> "ok",
                  total_pixels_poligono |-> area_util,
                  pixels_blancos |-> 0,
                  area_util |-> area_util,
                  pixels_afectados |-> num_afectados,
                  porcentaje_afectacion |->
                    IF area_util = 0 THEN Fin(0)
                    ELSE Porcentaje(num_afectados, area_util)]
  /\ UNCHANGED <<imagen, mascara, capa, mask_total, tolerancia, llamadas,
                  varsClasificar, varsCapas, varsResto>>

\* generar_informe: the level of the layer, from the stored percentage
ClasificarResultado ==
  /\ analisis # None
  /\ nivel = None
  /\ porcentaje' = analisis.porcentaje_afectacion
  /\ nivel' = clasificar_afectacion(analisis.porcentaje_afectacion)
  /\ UNCHANGED <<mascara, varsPixeles, varsCapas, varsResto>>

NextRedondeo ==
  \/ \E num_afectados \in 0..MaxAfectados, area_util \in AreasUtiles :
       AnalizarConCuentas(num_afectados, area_util)
  \/ ClasificarResultado

SpecRedondeo == InitRedondeo /\ [][NextRedondeo]_vars

(***************************************************************************)
(* Claims on the level of a layer with affected pixels (specification      *)
(* SpecRedondeo).                                                          *)
(***************************************************************************)
\* C26: a result with pixels_afectados > 0 is never given the level
\* SIN AFECTACION by clasificar_afectacion applied to its stored
\* porcentaje_afectacion.
C26_AfectadaNoSinAfectacion ==
  (nivel # None /\ analisis.pixels_afectados > 0) => nivel[1] # "SIN AFECTACION"

(***************************************************************************)
(* SpecPdf: a run of analizar_todas_capas followed by generar_pdf, for     *)
(* every outcome of the four WMS requests.  Of the pages of the PDF the    *)
(* model keeps what depends on which layers failed: the look-ups in        *)
(* self.resultados and the grid of the comparative map.                    *)
(***************************************************************************)
\* _generar_resumen_grafico: the statistics read total_pixels_poligono from
\* the analysis of the first entry of self.resultados, a key the error
\* variant does not have
generar_resumen_grafico(res) ==
  IF res[OrdenCapas[1]].analisis.kind = "error" THEN "KeyError" ELSE "ok"

\* _generar_mapa_comparativo: the grid has rows for the layers that have an
\* image, but plt.subplot is given the position i of the layer among all
\* the entries; matplotlib raises ValueError unless 1 <= i <= rows * cols
generar_mapa_comparativo(res) ==
  LET num_capas == Cardinality({n \in DOMAIN res : res[n].imagen # None})
      cols == 2
      rows == (num_capas + 1) \div 2
  IN IF num_capas = 0 THEN "ok"
     ELSE IF \E i \in 1..Len(OrdenCapas) :
               res[OrdenCapas[i]].imagen # None /\ i > rows * cols
            THEN "ValueError"
            ELSE "ok"

\* generar_pdf: cover, summary, one page per analysed layer, comparative
\* map; the first exception leaves the method
generar_pdf(res) ==
  IF generar_resumen_grafico(res) # "ok" THEN generar_resumen_grafico(res)
  ELSE generar_mapa_comparativo(res)

\* generar_pdf(archivo), called once analizar_todas_capas has returned
GenerarPdf ==
  /\ pc = "fin"
  /\ informe' = [pdf |-> generar_pdf(resultados)]
  /\ pc' = IF generar_pdf(resultados) = "ok" THEN "pdf" ELSE "excepcion_pdf"
  /\ UNCHANGED <<mascara, varsPixeles, varsClasificar, varsResto,
                  respuestas, resultados, indice, ranking>>

NextPdf ==
  \/ CrearMascara
  \/ AnalizarCapa
  \/ GenerarPdf

SpecPdf == InitCapas /\ [][NextPdf]_vars

(***************************************************************************)
(* Claims on generar_pdf (specification SpecPdf).                          *)
(***************************************************************************)
\* C27: once analizar_todas_capas has returned, generar_pdf ends without
\* raising, whichever layers ended in the error variant.
C27_PdfTolerante == pc # "excepcion_pdf"

(***************************************************************************)
(* SpecIdaVuelta: the KML file CatastroDownloader.generar_kml              *)
(* (src/services/catastro_engine.py) writes for a parcel, read by          *)
(* parsear_kml.  The ",0" altitude generar_kml appends to every tuple is   *)
(* left out of the file's model, as parsear_kml reads the first two parts  *)
(* of a tuple only.                                                        *)
(***************************************************************************)
LatitudesParcela == 37..38

LongitudesParcela == (-4)..(-3)

\* the vertices a GML ring is made of, as (lat, lon)
VerticesParcela == LatitudesParcela \X LongitudesParcela

RECURSIVE SecuenciasHasta(_, _)
SecuenciasHasta(S, n) ==
  IF n = 0 THEN {<<>>}
  ELSE LET menores == SecuenciasHasta(S, n - 1)
       IN menores \cup {Append(q, x) : q \in {m \in menores : Len(m) = n - 1}, x \in S}

\* the rings extraer_coordenadas_gml may hand over (an empty list stands for
\* None as well: generar_kml tests "gml_coords and ...")
AnillosGml == SecuenciasHasta(VerticesParcela, MaxVertices)

\* one tuple of the ring in the "lon,lat" order of KML, by the heuristic of
\* generar_kml on the ranges of latitude and longitude
tupla_kml(coord) ==
  LET v1 == coord[1]
      v2 == coord[2]
  IN IF 36 <= v1 /\ v1 <= 44 /\ -10 <= v2 /\ v2 <= 5 THEN <<v2, v1>>
     ELSE IF 36 <= v2 /\ v2 <= 44 /\ -10 <= v1 /\ v1 <= 5 THEN <<v1, v2>>
     ELSE <<v2, v1>>

\* the <coordinates> elements of the file generar_kml writes: the Point of
\* the centre first and, for a ring of more than 2 vertices, the LinearRing
\* with the first vertex repeated at its end
generar_kml(centro, anillo) ==
  << <<centro>> >> \o
  (IF Len(anillo) > 2
     THEN << [k \in 1..(Len(anillo) + 1) |->
                IF k <= Len(anillo) THEN tupla_kml(anillo[k]) ELSE tupla_kml(anillo[1])] >>
     ELSE <<>>)

InitIdaVuelta ==
  /\ coords \in LongitudesParcela \X LatitudesParcela
  /\ gml_coords \in AnillosGml
  /\ kml = None
  /\ coordenadas = None
  /\ bbox = None
  /\ mascara = None
  /\ pc = "sin_kml"
  /\ respuestas = None /\ resultados = <<>> /\ indice = 0
  /\ informe = None /\ ranking = None
  /\ SinPixeles
  /\ SinClasificar
  /\ SinEncuadre
  /\ SinCuota

\* generar_kml(referencia, coords, gml_coords): the file is written, or the
\* write fails and the method returns False
GenerarKml(escrito) ==
  /\ pc = "sin_kml"
  /\ IF escrito
       THEN kml' = generar_kml(coords, gml_coords) /\ pc' = "inicio"
       ELSE UNCHANGED kml /\ pc' = "sin_archivo"
  /\ UNCHANGED <<coordenadas, bbox, coords, gml_coords, mascara,
                  varsPixeles, varsClasificar, varsEncuadre, varsCuota,
                  respuestas, resultados, indice, informe, ranking>>

NextIdaVuelta ==
  \/ \E escrito \in BOOLEAN : GenerarKml(escrito)
  \/ ParsearKml

SpecIdaVuelta == InitIdaVuelta /\ [][NextIdaVuelta]_vars

(***************************************************************************)
(* Claims on the KML round trip (specification SpecIdaVuelta).             *)
(***************************************************************************)
\* the ring in the order of KML, closed
AnilloCerrado(anillo) ==
  [k \in 1..(Len(anillo) + 1) |->
     IF k <= Len(anillo) THEN <<anillo[k][2], anillo[k][1]>>
                         ELSE <<anillo[1][2], anillo[1][1]>>]

\* C28: for a ring of more than 2 vertices, parsear_kml on the file written
\* by generar_kml yields the vertices of the ring (closed, lon/lat order) as
\* coordenadas and the bbox that spans them, not the centre point.
C28_IdaYVuelta ==
  (pc = "parseado" /\ Len(gml_coords) > 2) =>
    /\ coordenadas = AnilloCerrado(gml_coords)
    /\ bbox = [minx |-> MinDe({gml_coords[k][2] : k \in 1..Len(gml_coords)}),
               miny |-> MinDe({gml_coords[k][1] : k \in 1..Len(gml_coords)}),
               maxx |-> MaxDe({gml_coords[k][2] : k \in 1..Len(gml_coords)}),
               maxy |-> MaxDe({gml_coords[k][1] : k \in 1..Len(gml_coords)})]

=============================================================================
